---- MODULE Spec2Model ----
(***************************************************************************)
(* Admin application of the token firmware (src/src/admin.rs): one command *)
(* table served over the CTAPHID packet transport (hid::App::call) and the *)
(* ISO 7816 card transport (apdu::App::call), with the three diverging     *)
(* operations of the Reboot trait.                                         *)
(*                                                                         *)
(* The state keeps the App's fields, the process state, the log of reboot  *)
(* variants invoked, and a record of the most recent dispatch: its inputs, *)
(* the calls it made to the trusted service, the reply buffer it left and  *)
(* what it returned.                                                       *)
(***************************************************************************)
EXTENDS Integers, Sequences, FiniteSets

VARIABLES uuid, version, ctor, proc, reboots, call, svc, response, result

vars == <<uuid, version, ctor, proc, reboots, call, svc, response, result>>

----------------------------------------------------------------------------
(* Bounds of the model *)

\* longest input payload of a packet-transport request
MaxInputLen == 2

\* capacity of the caller's reply buffer (Message / response::Data), scaled
Capacity == 60

----------------------------------------------------------------------------
(* Command codes and other constants of the program *)

UPDATE == 81

REBOOT == 83

RNG == 96

VERSION == 97

UUID == 98

\* VendorCommand::try_from(u8) accepts 0x40 ..= 0x7f
VendorFirst == 64

VendorLast == 127

PRESENCE_TIMEOUT_MS == 15000

RNG_LEN == 57

WINK_SECS == 10

----------------------------------------------------------------------------
(* Input domains *)

Byte == 0 .. 255

InputBytes == {0, 1}

RECURSIVE SeqsUpTo(_, _)
SeqsUpTo(S, n) ==
    IF n = 0 THEN {<<>>}
    ELSE LET shorter == SeqsUpTo(S, n - 1)
         IN  shorter \cup {Append(s, b) : s \in {t \in shorter : Len(t) = n - 1}, b \in S}

Payloads == SeqsUpTo(InputBytes, MaxInputLen)

P1s == {0, 1, 2}

Interfaces == {"Contact", "Contactless"}

\* outcomes of trussed's confirm_user_present: Ok or a consent error; the
\* answer the gate would give is an input of the commands that may reboot, and
\* the seed (the bytes the service draws) an input of RNG
PresenceAnswers == {"Ok", "TimedOut", "Interrupted"}

Seeds == {0, 1}

\* lengths of what the caller left in the reply buffer before the call
InitLens == {0, Capacity - 57, Capacity - 56, Capacity - 3}

Filler(len) == [i \in 1 .. len |-> 170]

Vendor(code) == [tag |-> "Vendor", code |-> code]

Wink == [tag |-> "Wink", code |-> 8]

Ping == [tag |-> "Ping", code |-> 1]

HidCommands ==
    {Wink, Ping} \cup {Vendor(c) : c \in {UPDATE, REBOOT, RNG, VERSION, UUID, 112}}

Instructions == {UPDATE, REBOOT, RNG, VERSION, UUID, 112, 8, 164}

Ins(code) == [tag |-> "Ins", code |-> code]

\* a u32 as its two 16-bit halves: the value is hi * 2^16 + lo
U32(hi, lo) == [hi |-> hi, lo |-> lo]

\* the (uuid, version) pairs the firmware may be built with:
\* versions 0x01020300, 0xFFFFFFFF and 0x00000080
Configs ==
    { [uuid |-> [i \in 1 .. 16 |-> i], version |-> U32(258, 768)],
      [uuid |-> [i \in 1 .. 16 |-> 255 - i], version |-> U32(65535, 65535)],
      [uuid |-> [i \in 1 .. 16 |-> 0], version |-> U32(0, 128)] }

----------------------------------------------------------------------------
(* Collaborators at their interface *)

\* variant: the part of the slice that still fits is appended
ExtendTruncating(buf, slice) ==
    IF Len(buf) + Len(slice) > Capacity
    THEN buf \o SubSeq(slice, 1, Capacity - Len(buf))
    ELSE buf \o slice

\* heapless Vec::extend_from_slice followed by .ok(): all or nothing
ExtendFromSlice(buf, slice) ==
    IF Len(buf) + Len(slice) > Capacity THEN buf ELSE buf \o slice

\* the bytes the trusted service returns for random_bytes(n)
random_bytes(n, seed) == [i \in 1 .. n |-> (seed + 37 * i) % 256]

to_be_bytes(v) ==
    << v.hi \div 256, v.hi % 256, v.lo \div 256, v.lo % 256 >>

SvcCall(op, arg, ret) == [op |-> op, arg |-> arg, ret |-> ret]

\* what a dispatch call leaves behind when it returns
Return(res, buf, calls) ==
    [result |-> res, response |-> buf, svc |-> calls, reboot |-> <<>>]

\* a call of one of the Reboot trait's functions: it never returns
Diverge(variant, buf, calls) ==
    [result |-> "Diverged", response |-> buf, svc |-> calls, reboot |-> <<variant>>]

\* variant: the gate's outcome is ignored
user_present_always(answer) ==
    [ok |-> TRUE,
     svc |-> <<SvcCall("confirm_user_present", PRESENCE_TIMEOUT_MS, answer)>>]

user_present(answer) ==
    [ok |-> answer = "Ok",
     svc |-> <<SvcCall("confirm_user_present", PRESENCE_TIMEOUT_MS, answer)>>]

\* variant: the Reboot function returns to its caller
ProcAfterReturns(reboot) == "Running"

\* control returns to the dispatcher only when no Reboot function was called
ProcAfter(reboot) == IF reboot = <<>> THEN "Running" ELSE "Terminated"

----------------------------------------------------------------------------
(* hid::App::call, one operator per match arm *)

hid_reboot(buf) == Diverge("reboot", buf, <<>>)

hid_rng(buf, seed) ==
    Return("Ok", ExtendFromSlice(buf, random_bytes(RNG_LEN, seed)),
           <<SvcCall("random_bytes", RNG_LEN, "Ok")>>)

\* variant: the payload is inspected before the gate is consulted
hid_update_destructive_first(input_data, buf, answer) ==
    LET up == user_present(answer)
    IN  IF Len(input_data) > 0 /\ input_data[1] = 1
        THEN Diverge("reboot_to_firmware_update_destructive", buf, <<>>)
        ELSE IF up.ok
             THEN Diverge("reboot_to_firmware_update", buf, up.svc)
             ELSE Return("InvalidLength", buf, up.svc)

\* variant: any non-empty payload selects the destructive reboot
hid_update_nonempty(input_data, buf, answer) ==
    LET up == user_present(answer)
    IN  IF up.ok
        THEN IF Len(input_data) > 0
             THEN Diverge("reboot_to_firmware_update_destructive", buf, up.svc)
             ELSE Diverge("reboot_to_firmware_update", buf, up.svc)
        ELSE Return("InvalidLength", buf, up.svc)

hid_update(input_data, buf, answer) ==
    LET up == user_present(answer)
    IN  IF up.ok
        THEN IF Len(input_data) > 0 /\ input_data[1] = 1
             THEN Diverge("reboot_to_firmware_update_destructive", buf, up.svc)
             ELSE Diverge("reboot_to_firmware_update", buf, up.svc)
        ELSE Return("InvalidLength", buf, up.svc)

hid_uuid(buf) == Return("Ok", ExtendFromSlice(buf, uuid), <<>>)

hid_version(buf) == Return("Ok", ExtendFromSlice(buf, to_be_bytes(version)), <<>>)

\* variant: WINK answers with a status byte
hid_wink_replies(buf) ==
    Return("Ok", ExtendFromSlice(buf, <<0>>), <<SvcCall("wink", WINK_SECS, "Ok")>>)

hid_wink(buf) == Return("Ok", buf, <<SvcCall("wink", WINK_SECS, "Ok")>>)

hid_call(command, input_data, buf, answer, seed) ==
    CASE command = Vendor(REBOOT)  -> hid_reboot(buf)
      [] command = Vendor(RNG)     -> hid_rng(buf, seed)
      [] command = Vendor(UPDATE)  -> hid_update(input_data, buf, answer)
      [] command = Vendor(UUID)    -> hid_uuid(buf)
      [] command = Vendor(VERSION) -> hid_version(buf)
      [] command = Wink            -> hid_wink(buf)
      [] OTHER                     -> Return("InvalidCommand", buf, <<>>)

\* variant: UUID is handled but not advertised
commands_without_uuid == {Wink, Vendor(UPDATE), Vendor(REBOOT), Vendor(RNG), Vendor(VERSION)}

\* the advertised command set
commands == {Wink, Vendor(UPDATE), Vendor(REBOOT), Vendor(RNG), Vendor(VERSION), Vendor(UUID)}

----------------------------------------------------------------------------
(* apdu::App: select, deselect and call *)

\* instruction.try_into(): Ok for a code of the vendor range
TryIntoVendorCommand(instruction) == instruction \in VendorFirst .. VendorLast

\* variant: REBOOT enters the firmware update mode
apdu_reboot_to_update(reply) == Diverge("reboot_to_firmware_update", reply, <<>>)

apdu_reboot(reply) == Diverge("reboot", reply, <<>>)

apdu_rng(reply, seed) ==
    Return("Ok", ExtendFromSlice(reply, random_bytes(RNG_LEN, seed)),
           <<SvcCall("random_bytes", RNG_LEN, "Ok")>>)

\* variant: the interface is not checked
apdu_update_any_interface(interface, p1, reply, answer) ==
    LET up == user_present(answer)
    IN  IF up.ok
        THEN IF p1 = 1
             THEN Diverge("reboot_to_firmware_update_destructive", reply, up.svc)
             ELSE Diverge("reboot_to_firmware_update", reply, up.svc)
        ELSE Return("ConditionsOfUseNotSatisfied", reply, up.svc)

\* variant: any non-zero P1 selects the destructive reboot
apdu_update_p1_nonzero(interface, p1, reply, answer) ==
    LET up == IF interface = "Contact" THEN user_present(answer)
                                       ELSE [ok |-> FALSE, svc |-> <<>>]
    IN  IF interface = "Contact" /\ up.ok
        THEN IF p1 # 0
             THEN Diverge("reboot_to_firmware_update_destructive", reply, up.svc)
             ELSE Diverge("reboot_to_firmware_update", reply, up.svc)
        ELSE Return("ConditionsOfUseNotSatisfied", reply, up.svc)

\* variant: the gate is consulted but its outcome does not gate the reboot
apdu_update_contact_only(interface, p1, reply, answer) ==
    LET up == IF interface = "Contact" THEN user_present(answer)
                                       ELSE [ok |-> FALSE, svc |-> <<>>]
    IN  IF interface = "Contact"
        THEN IF p1 = 1
             THEN Diverge("reboot_to_firmware_update_destructive", reply, up.svc)
             ELSE Diverge("reboot_to_firmware_update", reply, up.svc)
        ELSE Return("ConditionsOfUseNotSatisfied", reply, up.svc)

\* variant: a failed precondition falls through to Ok(())
apdu_update_falls_through(interface, p1, reply, answer) ==
    LET up == IF interface = "Contact" THEN user_present(answer)
                                       ELSE [ok |-> FALSE, svc |-> <<>>]
    IN  IF interface = "Contact" /\ up.ok
        THEN IF p1 = 1
             THEN Diverge("reboot_to_firmware_update_destructive", reply, up.svc)
             ELSE Diverge("reboot_to_firmware_update", reply, up.svc)
        ELSE Return("Ok", reply, up.svc)

\* variant: the conjuncts are swapped, the gate is consulted first
apdu_update_gate_first(interface, p1, reply, answer) ==
    LET up == user_present(answer)
    IN  IF up.ok /\ interface = "Contact"
        THEN IF p1 = 1
             THEN Diverge("reboot_to_firmware_update_destructive", reply, up.svc)
             ELSE Diverge("reboot_to_firmware_update", reply, up.svc)
        ELSE Return("ConditionsOfUseNotSatisfied", reply, up.svc)

apdu_update(interface, p1, reply, answer) ==
    LET up == IF interface = "Contact" THEN user_present(answer)
                                       ELSE [ok |-> FALSE, svc |-> <<>>]
    IN  IF interface = "Contact" /\ up.ok
        THEN IF p1 = 1
             THEN Diverge("reboot_to_firmware_update_destructive", reply, up.svc)
             ELSE Diverge("reboot_to_firmware_update", reply, up.svc)
        ELSE Return("ConditionsOfUseNotSatisfied", reply, up.svc)

apdu_uuid(reply) == Return("Ok", ExtendFromSlice(reply, uuid), <<>>)

\* variant: the version is encoded least significant byte first
apdu_version_le(reply) ==
    Return("Ok", ExtendFromSlice(reply,
               << version.lo % 256, version.lo \div 256, version.hi % 256, version.hi \div 256 >>),
           <<>>)

apdu_version(reply) == Return("Ok", ExtendFromSlice(reply, to_be_bytes(version)), <<>>)

\* variant: the default arm is missing, an unknown vendor code succeeds
apdu_call_no_default(interface, instruction, p1, reply, answer, seed) ==
    IF ~TryIntoVendorCommand(instruction)
    THEN Return("InstructionNotSupportedOrInvalid", reply, <<>>)
    ELSE CASE instruction = REBOOT  -> apdu_reboot(reply)
           [] instruction = RNG     -> apdu_rng(reply, seed)
           [] instruction = UPDATE  -> apdu_update(interface, p1, reply, answer)
           [] instruction = UUID    -> apdu_uuid(reply)
           [] instruction = VERSION -> apdu_version(reply)
           [] OTHER -> Return("Ok", reply, <<>>)

apdu_call(interface, instruction, p1, reply, answer, seed) ==
    IF ~TryIntoVendorCommand(instruction)
    THEN Return("InstructionNotSupportedOrInvalid", reply, <<>>)
    ELSE CASE instruction = REBOOT  -> apdu_reboot(reply)
           [] instruction = RNG     -> apdu_rng(reply, seed)
           [] instruction = UPDATE  -> apdu_update(interface, p1, reply, answer)
           [] instruction = UUID    -> apdu_uuid(reply)
           [] instruction = VERSION -> apdu_version(reply)
           [] OTHER -> Return("InstructionNotSupportedOrInvalid", reply, <<>>)

\* variant: select writes a status word into the reply
select_writes_status(reply) == Return("Ok", ExtendFromSlice(reply, <<144, 0>>), <<>>)

select(reply) == Return("Ok", reply, <<>>)

deselect(reply) == Return("Unit", reply, <<>>)

----------------------------------------------------------------------------
(* The state machine *)

NoCall ==
    [transport |-> "none", command |-> [tag |-> "None", code |-> 0], input |-> <<>>,
     p1 |-> 0, interface |-> "None", answer |-> "Ok", seed |-> 0, respIn |-> <<>>]

\* App::new(client, uuid, version)
Init ==
    /\ \E c \in Configs : uuid = c.uuid /\ version = c.version /\ ctor = c
    /\ proc = "Running"
    /\ reboots = <<>>
    /\ call = NoCall
    /\ svc = <<>>
    /\ response = <<>>
    /\ result = "None"

\* variant: a rejected command resets the stored version
FinishResetsVersion(c, out) ==
    /\ call' = c
    /\ svc' = out.svc
    /\ response' = out.response
    /\ result' = out.result
    /\ reboots' = reboots \o out.reboot
    /\ proc' = ProcAfter(out.reboot)
    /\ version' = IF out.result = "InvalidCommand" THEN U32(0, 0) ELSE version
    /\ UNCHANGED <<uuid, ctor>>

\* the effect of one dispatch on the state
Finish(c, out) ==
    /\ call' = c
    /\ svc' = out.svc
    /\ response' = out.response
    /\ result' = out.result
    /\ reboots' = reboots \o out.reboot
    /\ proc' = ProcAfter(out.reboot)
    /\ UNCHANGED <<uuid, version, ctor>>

HidCall ==
    /\ proc = "Running"
    /\ \E command \in HidCommands, input_data \in Payloads, len \in InitLens,
          answer \in PresenceAnswers, seed \in Seeds :
          /\ command # Vendor(RNG) => seed = 0
          /\ command \notin {Vendor(UPDATE), Vendor(REBOOT)} => answer = "Ok"
          /\ Finish([transport |-> "hid", command |-> command, input |-> input_data,
                     p1 |-> 0, interface |-> "Usb", answer |-> answer, seed |-> seed,
                     respIn |-> Filler(len)],
                    hid_call(command, input_data, Filler(len), answer, seed))

ApduCall ==
    /\ proc = "Running"
    /\ \E interface \in Interfaces, instruction \in Instructions, p1 \in P1s,
          len \in InitLens, answer \in PresenceAnswers, seed \in Seeds :
          /\ instruction # RNG => seed = 0
          /\ instruction \notin {UPDATE, REBOOT} => answer = "Ok"
          /\ Finish([transport |-> "apdu", command |-> Ins(instruction), input |-> <<>>,
                     p1 |-> p1, interface |-> interface, answer |-> answer, seed |-> seed,
                     respIn |-> Filler(len)],
                    apdu_call(interface, instruction, p1, Filler(len), answer, seed))

Select ==
    /\ proc = "Running"
    /\ \E len \in InitLens, p1 \in P1s :
          Finish([transport |-> "apdu", command |-> [tag |-> "Select", code |-> 164],
                  input |-> <<>>, p1 |-> p1, interface |-> "None", answer |-> "Ok",
                  seed |-> 0, respIn |-> Filler(len)],
                 select(Filler(len)))

Deselect ==
    /\ proc = "Running"
    /\ Finish([transport |-> "apdu", command |-> [tag |-> "Deselect", code |-> 0],
               input |-> <<>>, p1 |-> 0, interface |-> "None", answer |-> "Ok",
               seed |-> 0, respIn |-> response],
              deselect(response))

Next == HidCall \/ ApduCall \/ Select \/ Deselect

Spec == Init /\ [][Next]_vars

TypeOK ==
    /\ proc \in {"Running", "Terminated"}
    /\ Len(response) <= Capacity
    /\ Len(reboots) <= 1

----------------------------------------------------------------------------
(* Properties *)

IsHid(code) == call.transport = "hid" /\ call.command = Vendor(code)

IsApdu(code) == call.transport = "apdu" /\ call.command = Ins(code)

UpdateVariants == {"reboot_to_firmware_update", "reboot_to_firmware_update_destructive"}

Invoked(variants) == \E i \in 1 .. Len(reboots) : reboots[i] \in variants

GateConfirmed ==
    \E i \in 1 .. Len(svc) : svc[i].op = "confirm_user_present" /\ svc[i].ret = "Ok"

\* C1: an update-reboot (graceful or destructive) has been invoked only if,
\* in the same dispatch, the command was UPDATE and the User Presence Gate
\* returned confirmed, and on the card transport only if the request came
\* over the Contact interface.
C1_UpdateRebootGated ==
    Invoked(UpdateVariants) =>
        /\ IsHid(UPDATE) \/ IsApdu(UPDATE)
        /\ GateConfirmed
        /\ call.answer = "Ok"
        /\ call.transport = "apdu" => call.interface = "Contact"

C1_Witness ==
    /\ Invoked(UpdateVariants)
    /\ IsApdu(UPDATE)
    /\ call.interface = "Contact"
    /\ GateConfirmed

\* C2: UPDATE over the packet transport with presence denied or timed out
\* returns InvalidLength for every payload, invokes no reboot variant and
\* leaves the process Running.
C2_HidUpdateDenied ==
    (IsHid(UPDATE) /\ call.answer # "Ok") =>
        /\ result = "InvalidLength"
        /\ reboots = <<>>
        /\ proc = "Running"

C2_Witness ==
    /\ IsHid(UPDATE)
    /\ call.answer = "TimedOut"
    /\ call.input = <<1>>
    /\ result = "InvalidLength"

\* C3: UPDATE over the card transport on a contactless interface returns
\* ConditionsOfUseNotSatisfied and invokes no reboot variant, for every P1
\* and whatever the presence gate would answer.
C3_ApduUpdateContactless ==
    (IsApdu(UPDATE) /\ call.interface # "Contact") =>
        /\ result = "ConditionsOfUseNotSatisfied"
        /\ reboots = <<>>
        /\ proc = "Running"

C3_Witness ==
    /\ IsApdu(UPDATE)
    /\ call.interface = "Contactless"
    /\ call.answer = "Ok"
    /\ call.p1 = 1
    /\ result = "ConditionsOfUseNotSatisfied"

\* C4: UPDATE over the packet transport with presence granted invokes the
\* destructive update-reboot exactly when the payload is non-empty and its
\* first byte is 0x01, and the graceful one otherwise; exactly one variant
\* is invoked and never the normal reboot.
C4_HidUpdateBranch ==
    (IsHid(UPDATE) /\ call.answer = "Ok") =>
        reboots = << IF call.input # <<>> /\ Head(call.input) = 1
                     THEN "reboot_to_firmware_update_destructive"
                     ELSE "reboot_to_firmware_update" >>

C4_Witness ==
    /\ IsHid(UPDATE)
    /\ call.answer = "Ok"
    /\ Len(call.input) = 2
    /\ Head(call.input) = 0
    /\ reboots = <<"reboot_to_firmware_update">>

\* C5: UPDATE over the card transport on the Contact interface with presence
\* confirmed invokes the destructive update-reboot when P1 = 0x01 and the
\* graceful one for any other P1; the call diverges, so nothing is returned
\* and the reply buffer is left as it was.
C5_ApduUpdateBranch ==
    (IsApdu(UPDATE) /\ call.interface = "Contact" /\ call.answer = "Ok") =>
        /\ reboots = << IF call.p1 = 1
                        THEN "reboot_to_firmware_update_destructive"
                        ELSE "reboot_to_firmware_update" >>
        /\ result = "Diverged"
        /\ proc = "Terminated"
        /\ response = call.respIn

C5_Witness ==
    /\ IsApdu(UPDATE)
    /\ call.interface = "Contact"
    /\ call.answer = "Ok"
    /\ call.p1 = 2
    /\ reboots = <<"reboot_to_firmware_update">>

\* C6: UPDATE over the card transport on the Contact interface with presence
\* denied or timed out fails with ConditionsOfUseNotSatisfied: no reboot
\* variant is invoked, the process stays Running and the reply buffer is
\* not written.
C6_ApduUpdateDenied ==
    (IsApdu(UPDATE) /\ call.interface = "Contact" /\ call.answer # "Ok") =>
        /\ result = "ConditionsOfUseNotSatisfied"
        /\ reboots = <<>>
        /\ proc = "Running"
        /\ response = call.respIn

C6_Witness ==
    /\ IsApdu(UPDATE)
    /\ call.interface = "Contact"
    /\ call.answer = "Interrupted"
    /\ call.respIn # <<>>
    /\ result = "ConditionsOfUseNotSatisfied"

\* C7: REBOOT has no precondition: over the packet transport, or over the
\* card transport on any interface, it invokes the normal reboot and no
\* other variant, without consulting the User Presence Gate, for every
\* payload and P1, and control never returns to the caller.
C7_RebootUnconditional ==
    (IsHid(REBOOT) \/ IsApdu(REBOOT)) =>
        /\ reboots = <<"reboot">>
        /\ svc = <<>>
        /\ result = "Diverged"
        /\ proc = "Terminated"

C7_Witness ==
    /\ IsApdu(REBOOT)
    /\ call.interface = "Contactless"
    /\ call.answer = "TimedOut"
    /\ reboots = <<"reboot">>

\* the dispatches that reach a Reboot function
RebootingCall(c) ==
    \/ c.command \in {Vendor(REBOOT), Ins(REBOOT)}
    \/ c.command = Vendor(UPDATE) /\ c.answer = "Ok"
    \/ c.command = Ins(UPDATE) /\ c.answer = "Ok" /\ c.interface = "Contact"

\* C8: the process is Running or Terminated; a step leaves Running exactly
\* when it dispatches REBOOT or an UPDATE on its success path, every other
\* dispatch leaves it Running; Terminated is terminal: no step is taken from
\* it, nothing is returned and no second reboot variant is invoked.
C8_ProcessStates ==
    [][ /\ proc = "Running"
        /\ proc' \in {"Running", "Terminated"}
        /\ (proc' = "Terminated") <=> RebootingCall(call')
        /\ (proc' = "Terminated") => (result' = "Diverged" /\ Len(reboots') = 1)
        /\ (proc' = "Running") => (result' # "Diverged" /\ reboots' = <<>>) ]_vars

C8_Witness ==
    /\ proc = "Terminated"
    /\ Len(reboots) = 1
    /\ result = "Diverged"

\* C9: for the same device state, the same bytes from the trusted service
\* and the same initial reply buffer, RNG, UUID and VERSION leave the same
\* reply buffer and the same success outcome over the packet transport (for
\* every payload) and over the card transport (for every interface and P1).
C9_TransportsAgree ==
    \A code \in {RNG, UUID, VERSION} :
        (IsHid(code) \/ IsApdu(code)) =>
            \A input_data \in Payloads, interface \in Interfaces, p1 \in P1s :
                LET h == hid_call(Vendor(code), input_data, call.respIn, call.answer, call.seed)
                    a == apdu_call(interface, code, p1, call.respIn, call.answer, call.seed)
                IN  /\ h.response = a.response
                    /\ h.result = "Ok" /\ a.result = "Ok"
                    /\ h.reboot = <<>> /\ a.reboot = <<>>
                    /\ response = h.response
                    /\ result = "Ok"

C9_Witness ==
    /\ IsApdu(VERSION)
    /\ call.interface = "Contactless"
    /\ Len(response) = Len(call.respIn) + 4
    /\ version = U32(258, 768)

\* C10: every RNG call, over either transport, requests exactly 57 bytes
\* from the trusted service, appends exactly those 57 bytes to the reply
\* buffer and succeeds.
C10_RngAlways57 ==
    (IsHid(RNG) \/ IsApdu(RNG)) =>
        /\ svc = <<SvcCall("random_bytes", 57, "Ok")>>
        /\ response = call.respIn \o random_bytes(57, call.seed)
        /\ Len(response) = Len(call.respIn) + 57
        /\ result = "Ok"

\* the bytes the last dispatch appended to the reply buffer
Appended == SubSeq(response, Len(call.respIn) + 1, Len(response))

FiveCodes == {UPDATE, REBOOT, RNG, VERSION, UUID}

\* C11: the VERSION response, over either transport, is exactly 4 bytes, the
\* big-endian encoding of the configured 32-bit version (most significant
\* byte first); version 0x01020300 yields 01 02 03 00.
C11_VersionBigEndian ==
    (IsHid(VERSION) \/ IsApdu(VERSION)) =>
        /\ result = "Ok"
        /\ Len(Appended) = 4
        /\ \A i \in 1 .. 4 : Appended[i] \in Byte
        /\ Appended[1] * 256 + Appended[2] = ctor.version.hi
        /\ Appended[3] * 256 + Appended[4] = ctor.version.lo
        /\ ctor.version = U32(258, 768) => Appended = <<1, 2, 3, 0>>

\* C12: the UUID response, over either transport, is the 16-byte identifier
\* passed at construction, same bytes in the same order, for every call.
C12_UuidVerbatim ==
    (IsHid(UUID) \/ IsApdu(UUID)) =>
        /\ result = "Ok"
        /\ Len(Appended) = 16
        /\ Appended = ctor.uuid

\* C13: in every reachable state the stored uuid and version are the values
\* given at construction; no command of either transport writes them.
C13_IdentityImmutable ==
    /\ uuid = ctor.uuid
    /\ version = ctor.version

C13_Witness ==
    /\ call.transport = "hid"
    /\ call.command = Vendor(112)
    /\ result = "InvalidCommand"
    /\ uuid = ctor.uuid
    /\ version = U32(65535, 65535)

\* C14: an unrecognized command fails with the transport's own error and
\* does nothing: InvalidCommand on the packet transport for a command outside
\* the table, InstructionNotSupportedOrInvalid on the card transport for an
\* instruction that is none of the five (inside or outside the vendor
\* range); no reboot, no service call, reply buffer unchanged.
C14_UnknownCommand ==
    /\ (call.transport = "hid" /\ call.command \notin {Wink} \cup {Vendor(c) : c \in FiveCodes}) =>
           result = "InvalidCommand"
    /\ (call.transport = "apdu" /\ call.command.tag = "Ins" /\ call.command.code \notin FiveCodes) =>
           result = "InstructionNotSupportedOrInvalid"
    /\ result \in {"InvalidCommand", "InstructionNotSupportedOrInvalid"} =>
           /\ reboots = <<>>
           /\ svc = <<>>
           /\ response = call.respIn
           /\ proc = "Running"

C14_Witness ==
    /\ IsApdu(112)
    /\ TryIntoVendorCommand(112)
    /\ call.respIn # <<>>
    /\ result = "InstructionNotSupportedOrInvalid"

\* C15: on the packet transport a command returns InvalidCommand if and only
\* if it is not in the advertised list; on the card transport the five
\* vendor codes select the actions they select on the packet transport (same
\* reboot variant, same service calls, same reply), and WINK has no card
\* analogue: its code is rejected and no card command winks.
C15_CommandSets ==
    /\ call.transport = "hid" => (result = "InvalidCommand" <=> call.command \notin commands)
    /\ \A code \in FiveCodes :
           (IsApdu(code) /\ call.interface = "Contact") =>
               LET h == hid_call(Vendor(code), <<call.p1>>, call.respIn, call.answer, call.seed)
               IN  /\ result # "InstructionNotSupportedOrInvalid"
                   /\ reboots = h.reboot
                   /\ svc = h.svc
                   /\ response = h.response
    /\ call.transport = "apdu" =>
           /\ \A i \in 1 .. Len(svc) : svc[i].op # "wink"
           /\ call.command = Ins(Wink.code) => result = "InstructionNotSupportedOrInvalid"

C15_Witness ==
    /\ IsHid(UUID)
    /\ Vendor(UUID) \in commands
    /\ result = "Ok"
    /\ Len(response) = Len(call.respIn) + 16

\* C16: WINK on the packet transport never appends reply bytes and never
\* fails: for every payload it issues one 10-second wink to the trusted
\* service, leaves the reply buffer unchanged, invokes no reboot and no
\* presence confirmation, and returns success.
C16_WinkNoReply ==
    (call.transport = "hid" /\ call.command = Wink) =>
        /\ svc = <<SvcCall("wink", 10, "Ok")>>
        /\ response = call.respIn
        /\ Appended = <<>>
        /\ reboots = <<>>
        /\ proc = "Running"
        /\ result = "Ok"

C16_Witness ==
    /\ call.transport = "hid"
    /\ call.command = Wink
    /\ Len(call.input) = 2
    /\ call.respIn # <<>>
    /\ result = "Ok"

\* C17: application-select always succeeds, appends nothing to the reply and
\* changes no state; application-deselect has no observable effect: device
\* state, reply buffer and process state are unchanged and no service or
\* reboot call is made.
C17_SelectDeselect ==
    [][ /\ call'.command.tag = "Select" =>
               /\ result' = "Ok"
               /\ response' = call'.respIn
               /\ svc' = <<>>
               /\ UNCHANGED <<uuid, version, proc, reboots>>
        /\ call'.command.tag = "Deselect" =>
               /\ svc' = <<>>
               /\ UNCHANGED <<uuid, version, proc, reboots, response>> ]_vars

C17_Witness ==
    /\ call.command.tag = "Select"
    /\ call.respIn # <<>>
    /\ response = call.respIn
    /\ result = "Ok"
    /\ proc = "Running"

\* the payload RNG, UUID or VERSION tries to append
PayloadOf(code) ==
    CASE code = RNG     -> random_bytes(57, call.seed)
      [] code = UUID    -> ctor.uuid
      [] code = VERSION -> to_be_bytes(ctor.version)

\* the last dispatch was RNG, UUID or VERSION with a payload that did not fit
Overflowed(code) ==
    /\ IsHid(code) \/ IsApdu(code)
    /\ Len(call.respIn) + Len(PayloadOf(code)) > Capacity

Errors ==
    {"InvalidLength", "InvalidCommand", "InstructionNotSupportedOrInvalid",
     "ConditionsOfUseNotSatisfied"}

\* C19: an error return and a reboot exclude each other: whenever a dispatch
\* returns an error no reboot variant was invoked in it and the reply buffer
\* is as it was on entry; and a card-transport UPDATE never returns success,
\* the only outcome it returns is ConditionsOfUseNotSatisfied.
C19_ErrorOrReboot ==
    /\ result \in Errors =>
           /\ reboots = <<>>
           /\ proc = "Running"
           /\ response = call.respIn
    /\ reboots # <<>> => result = "Diverged"
    /\ IsApdu(UPDATE) => result \in {"ConditionsOfUseNotSatisfied", "Diverged"}

C19_Witness ==
    /\ IsApdu(UPDATE)
    /\ call.interface = "Contact"
    /\ call.answer = "TimedOut"
    /\ result = "ConditionsOfUseNotSatisfied"
    /\ reboots = <<>>

ConfirmCalls == {i \in 1 .. Len(svc) : svc[i].op = "confirm_user_present"}

\* the dispatches whose code path reaches user_present()
GatedCall == IsHid(UPDATE) \/ (IsApdu(UPDATE) /\ call.interface = "Contact")

\* C20: the User Presence Gate is consulted only by UPDATE, at most once per
\* dispatch, always with the 15000 ms timeout and before any update-reboot;
\* no other command, select or deselect requests it, and a card-transport
\* UPDATE over a contactless interface is rejected without requesting it.
C20_GateOnlyForUpdate ==
    /\ Cardinality(ConfirmCalls) <= 1
    /\ \A i \in ConfirmCalls : svc[i].arg = 15000 /\ svc[i].ret = call.answer
    /\ ConfirmCalls # {} <=> GatedCall
    /\ Invoked(UpdateVariants) => Cardinality(ConfirmCalls) = 1
    /\ (IsApdu(UPDATE) /\ call.interface # "Contact") =>
           /\ svc = <<>>
           /\ result = "ConditionsOfUseNotSatisfied"

C20_Witness ==
    /\ IsApdu(UPDATE)
    /\ call.interface = "Contactless"
    /\ call.answer = "Ok"
    /\ svc = <<>>
    /\ reboots = <<>>

====
